---- MODULE Spec2Model ----
(***************************************************************************)
(* Model of the configuration-change core of raft-rs:                      *)
(*   src/confchange/changer.rs  (Changer, IncrChangeMap, check_invariants) *)
(*   src/quorum/majority.rs     (MajorityConfig committed_index,           *)
(*                               vote_result)                              *)
(*   src/quorum/joint.rs        (JointConfig committed_index, vote_result) *)
(* The driver is the command loop of changer.rs `test_confchange`, which   *)
(* runs one Changer operation per iteration against the tracker and        *)
(* installs a successful result with ProgressTracker::apply_conf.          *)
(***************************************************************************)
EXTENDS Integers, Sequences, FiniteSets, TLC

\* ---------------------------------------------------------------- bounds
\* Largest node id used in edits (ids are 1..MaxId; 0 is the reserved no-op id).
MaxId == 2
\* Longest edit list handed to simple / enter_joint.
MaxEdits == 2
\* Largest voter id of a MajorityConfig query and of a vote query.
MaxVoters == 3
\* Largest voter id of a JointConfig::committed_index query.
MaxJointVoters == 2
\* Largest acknowledged log index.
MaxIndex == 2
\* Largest group id (0 is "no group").
MaxGroup == 2

NodeIds == 1..MaxId

\* ConfChangeType (eraftpb), as matched in Changer::apply.
ChangeTypes == {"AddNode", "AddLearnerNode", "RemoveNode"}

\* ConfChangeSingle: every edit the driver may put in a batch.
ConfChangeSingles == [change_type : ChangeTypes, node_id : 0..MaxId]

\* All edit lists of length 0..MaxEdits.
Batches == UNION {[1..n -> ConfChangeSingles] : n \in 0..MaxEdits}

\* ---------------------------------------------------------------- state
VARIABLES
    conf,      \* tracker.conf(): the authoritative Configuration
    progress,  \* tracker.progress(): ids that have a progress entry
    pc,        \* position of the command loop: "idle" | "done"
    cmd,       \* the command executed in this iteration
    res,       \* the Result it returned
    prev,      \* the tracker (conf, progress) as it was before the command
    query,     \* the quorum query being answered, with its arguments
    answer,    \* what the query returned
    calls      \* results of simple() that callers hold and have not installed

vars == <<conf, progress, pc, cmd, res, prev, query, answer, calls>>

\* Configuration::default(): the empty configuration.
EmptyConf ==
    [incoming |-> {}, outgoing |-> {}, learners |-> {}, learners_next |-> {},
     auto_leave |-> FALSE]

NoCmd == [op |-> "none", auto_leave |-> FALSE, ccs |-> <<>>]
NoRes == [ok |-> FALSE, err |-> "none", dropped_cfg |-> EmptyConf, dropped_changes |-> <<>>]
NoQuery == [kind |-> "none"]
NoAnswer == "none"
NoCalls == [pending |-> {}, installed |-> 0]

\* ------------------------------------------------------- IncrChangeMap
\* Index of the last change that names id, 0 when there is none (rfind).
RECURSIVE rfind(_, _, _)
rfind(changes, id, i) ==
    IF i = 0 THEN 0
    ELSE IF changes[i][1] = id THEN i
    ELSE rfind(changes, id, i - 1)

\* Variant: any pending change for the id counts as "present".
contains_any_change(prs, id) ==
    LET i == rfind(prs.changes, id, Len(prs.changes))
    IN  IF i = 0 THEN id \in prs.base ELSE TRUE

\* IncrChangeMap::contains
contains(prs, id) ==
    LET i == rfind(prs.changes, id, Len(prs.changes))
    IN  IF i = 0 THEN id \in prs.base
        ELSE prs.changes[i][2] = "Add"

\* #[inline] fn joint(cfg)
joint(cfg) == cfg.outgoing # {}

\* --------------------------------------------------- check_invariants
\* Returns "" for Ok(()), else the error.  The sets are visited in hash order:
\* which offending id is met first is not determined, so the id is left out of
\* the message and the first offender is an arbitrary one (CHOOSE).
check_invariants(cfg, prs) ==
    LET bad_l == {id \in cfg.learners :
                    \/ ~contains(prs, id)
                    \/ id \in cfg.outgoing
                    \/ id \in cfg.incoming}
        bad_n == {id \in cfg.learners_next :
                    \/ ~contains(prs, id)
                    \/ id \notin cfg.outgoing}
    IN  IF \E id \in cfg.incoming \cup cfg.outgoing : ~contains(prs, id)
        THEN "no progress for voter"
        ELSE IF bad_l # {}
        THEN LET id == CHOOSE x \in bad_l : TRUE
             IN  IF ~contains(prs, id) THEN "no progress for learner"
                 ELSE IF id \in cfg.outgoing
                 THEN "is in learners and outgoing voters"
                 ELSE "is in learners and incoming voters"
        ELSE IF bad_n # {}
        THEN LET id == CHOOSE x \in bad_n : TRUE
             IN  IF ~contains(prs, id) THEN "no progress for learner(next)"
                 ELSE "is in learners_next and outgoing voters"
        ELSE IF ~joint(cfg) /\ cfg.learners_next # {}
        THEN "learners_next must be empty when not joint"
        ELSE IF ~joint(cfg) /\ cfg.auto_leave
        THEN "auto_leave must be false when not joint"
        ELSE ""

\* Changer::check_and_copy
check_and_copy(tconf, tprogress) ==
    LET prs == [changes |-> <<>>, base |-> tprogress]
    IN  [err |-> check_invariants(tconf, prs), cfg |-> tconf, prs |-> prs]

\* ------------------------------------------------------ single edits
\* Changer::init_progress
init_progress(cfg, prs, id, is_learner) ==
    [cfg |-> IF ~is_learner
             THEN [cfg EXCEPT !.incoming = @ \cup {id}]
             ELSE [cfg EXCEPT !.learners = @ \cup {id}],
     prs |-> [prs EXCEPT !.changes = Append(@, <<id, "Add">>)]]

\* Variant: an id that becomes a voter again keeps its place in learners_next.
make_voter_keep_staged(cfg, prs, id) ==
    IF ~contains(prs, id)
    THEN init_progress(cfg, prs, id, FALSE)
    ELSE [cfg |-> [cfg EXCEPT !.incoming = @ \cup {id},
                              !.learners = @ \ {id}],
          prs |-> prs]

\* Changer::make_voter
make_voter(cfg, prs, id) ==
    IF ~contains(prs, id)
    THEN init_progress(cfg, prs, id, FALSE)
    ELSE [cfg |-> [cfg EXCEPT !.incoming = @ \cup {id},
                              !.learners = @ \ {id},
                              !.learners_next = @ \ {id}],
          prs |-> prs]

\* Variant: a voter of the outgoing half is made a learner at once instead
\* of being staged in learners_next.
make_learner_unstaged(cfg, prs, id) ==
    IF ~contains(prs, id)
    THEN init_progress(cfg, prs, id, TRUE)
    ELSE IF id \in cfg.learners
    THEN [cfg |-> cfg, prs |-> prs]
    ELSE [cfg |-> [cfg EXCEPT !.incoming = @ \ {id},
                              !.learners = (@ \ {id}) \cup {id},
                              !.learners_next = @ \ {id}],
          prs |-> prs]

\* Changer::make_learner
make_learner(cfg, prs, id) ==
    IF ~contains(prs, id)
    THEN init_progress(cfg, prs, id, TRUE)
    ELSE IF id \in cfg.learners
    THEN [cfg |-> cfg, prs |-> prs]
    ELSE LET c1 == [cfg EXCEPT !.incoming = @ \ {id},
                               !.learners = @ \ {id},
                               !.learners_next = @ \ {id}]
         IN  [cfg |-> IF id \in c1.outgoing
                      THEN [c1 EXCEPT !.learners_next = @ \cup {id}]
                      ELSE [c1 EXCEPT !.learners = @ \cup {id}],
              prs |-> prs]

\* Variant: the progress Remove is emitted for outgoing voters too.
remove_always_emits(cfg, prs, id) ==
    IF ~contains(prs, id)
    THEN [cfg |-> cfg, prs |-> prs]
    ELSE [cfg |-> [cfg EXCEPT !.incoming = @ \ {id},
                              !.learners = @ \ {id},
                              !.learners_next = @ \ {id}],
          prs |-> [prs EXCEPT !.changes = Append(@, <<id, "Remove">>)]]

\* Variant: no progress Remove is ever emitted.
remove_keep_progress(cfg, prs, id) ==
    IF ~contains(prs, id)
    THEN [cfg |-> cfg, prs |-> prs]
    ELSE [cfg |-> [cfg EXCEPT !.incoming = @ \ {id},
                              !.learners = @ \ {id},
                              !.learners_next = @ \ {id}],
          prs |-> prs]

\* Changer::remove
remove(cfg, prs, id) ==
    IF ~contains(prs, id)
    THEN [cfg |-> cfg, prs |-> prs]
    ELSE LET c1 == [cfg EXCEPT !.incoming = @ \ {id},
                               !.learners = @ \ {id},
                               !.learners_next = @ \ {id}]
         IN  [cfg |-> c1,
              prs |-> IF id \notin c1.outgoing
                      THEN [prs EXCEPT !.changes = Append(@, <<id, "Remove">>)]
                      ELSE prs]

\* Variant: edits with node id 0 are applied like any other.
RECURSIVE apply_loop_no_skip(_, _, _)
apply_loop_no_skip(cfg, prs, ccs) ==
    IF ccs = <<>> THEN [cfg |-> cfg, prs |-> prs]
    ELSE LET cc == Head(ccs)
             st == IF cc.change_type = "AddNode"
                        THEN make_voter(cfg, prs, cc.node_id)
                   ELSE IF cc.change_type = "AddLearnerNode"
                        THEN make_learner(cfg, prs, cc.node_id)
                   ELSE remove(cfg, prs, cc.node_id)
         IN  apply_loop_no_skip(st.cfg, st.prs, Tail(ccs))

\* The `for cc in ccs` loop of Changer::apply.
RECURSIVE apply_loop(_, _, _)
apply_loop(cfg, prs, ccs) ==
    IF ccs = <<>> THEN [cfg |-> cfg, prs |-> prs]
    ELSE LET cc == Head(ccs)
             st == IF cc.node_id = 0 THEN [cfg |-> cfg, prs |-> prs]
                   ELSE IF cc.change_type = "AddNode"
                        THEN make_voter(cfg, prs, cc.node_id)
                   ELSE IF cc.change_type = "AddLearnerNode"
                        THEN make_learner(cfg, prs, cc.node_id)
                   ELSE remove(cfg, prs, cc.node_id)
         IN  apply_loop(st.cfg, st.prs, Tail(ccs))

\* Variant: no check for an empty incoming set after the edits.
apply_without_voter_check(cfg, prs, ccs) ==
    LET st == apply_loop(cfg, prs, ccs)
    IN  [err |-> "", cfg |-> st.cfg, prs |-> st.prs]

\* Changer::apply
apply(cfg, prs, ccs) ==
    LET st == apply_loop(cfg, prs, ccs)
    IN  [err |-> IF st.cfg.incoming = {} THEN "removed all voters" ELSE "",
         cfg |-> st.cfg, prs |-> st.prs]

\* ------------------------------------------------- Changer operations
\* Ok((cfg, prs.into_changes()))
Ok(cfg, changes) == [ok |-> TRUE, err |-> "", cfg |-> cfg, changes |-> changes]

\* Err(Error::ConfChangeError(msg)).  The Result carries only the message;
\* dropped_cfg and dropped_changes record the locals `cfg` and `prs` that the
\* early return drops, so that the model can say they are never installed.
Err(msg, cfg, changes) ==
    [ok |-> FALSE, err |-> msg, dropped_cfg |-> cfg, dropped_changes |-> changes]

\* Variant: the incoming voters are copied to outgoing after the edits.
enter_joint_copy_after_apply(cc, auto_leave, ccs) ==
    LET ap == apply(cc.cfg, cc.prs, ccs)
        c1 == [ap.cfg EXCEPT !.outgoing = @ \cup ap.cfg.incoming]
    IN  IF ap.err # "" THEN Err(ap.err, ap.cfg, ap.prs.changes)
        ELSE LET c2 == [c1 EXCEPT !.auto_leave = auto_leave]
                 ci == check_invariants(c2, ap.prs)
             IN  IF ci # "" THEN Err(ci, c2, ap.prs.changes)
                 ELSE Ok(c2, ap.prs.changes)

\* Changer::enter_joint from `cfg.voters.outgoing.extend(..)` on; cc is the
\* copy made by check_and_copy.
enter_joint_staged(cc, auto_leave, ccs) ==
    LET c1 == [cc.cfg EXCEPT !.outgoing = @ \cup cc.cfg.incoming]
        ap == apply(c1, cc.prs, ccs)
    IN  IF ap.err # "" THEN Err(ap.err, ap.cfg, ap.prs.changes)
        ELSE LET c2 == [ap.cfg EXCEPT !.auto_leave = auto_leave]
                 ci == check_invariants(c2, ap.prs)
             IN  IF ci # "" THEN Err(ci, c2, ap.prs.changes)
                 ELSE Ok(c2, ap.prs.changes)

\* Variant: no "already joint" guard.
enter_joint_unguarded(tconf, tprogress, auto_leave, ccs) ==
    LET cc == check_and_copy(tconf, tprogress)
    IN  IF cc.err # "" THEN Err(cc.err, tconf, <<>>)
        ELSE IF cc.cfg.incoming = {}
        THEN Err("can't make a zero-voter config joint", cc.cfg, <<>>)
        ELSE enter_joint_staged(cc, auto_leave, ccs)

\* Variant: no zero-voter guard.
enter_joint_from_empty(tconf, tprogress, auto_leave, ccs) ==
    IF joint(tconf) THEN Err("configuration is already joint", tconf, <<>>)
    ELSE LET cc == check_and_copy(tconf, tprogress)
         IN  IF cc.err # "" THEN Err(cc.err, tconf, <<>>)
             ELSE enter_joint_staged(cc, auto_leave, ccs)

\* Changer::enter_joint
enter_joint(tconf, tprogress, auto_leave, ccs) ==
    IF joint(tconf) THEN Err("configuration is already joint", tconf, <<>>)
    ELSE LET cc == check_and_copy(tconf, tprogress)
         IN  IF cc.err # "" THEN Err(cc.err, tconf, <<>>)
             ELSE IF cc.cfg.incoming = {}
             THEN Err("can't make a zero-voter config joint", cc.cfg, <<>>)
             ELSE enter_joint_staged(cc, auto_leave, ccs)

\* The sequences that visit every element of set S once: the orders in which
\* a HashSet may be iterated.
RECURSIVE IterOrders(_)
IterOrders(S) ==
    IF S = {} THEN {<<>>}
    ELSE UNION {{<<x>> \o rest : rest \in IterOrders(S \ {x})} : x \in S}

\* Variant: the progress of every outgoing voter is removed, also of those
\* that stay as incoming voters or learners.
leave_joint_remove_all_outgoing(tconf, tprogress, order) ==
    LET cc == check_and_copy(tconf, tprogress)
    IN  IF cc.err # "" THEN Err(cc.err, tconf, <<>>)
        ELSE IF cc.cfg.outgoing = {}
        THEN Err("configuration is not joint", cc.cfg, <<>>)
        ELSE LET c1 == [cc.cfg EXCEPT !.learners = @ \cup cc.cfg.learners_next,
                                       !.learners_next = {}]
                 prs == [cc.prs EXCEPT !.changes =
                            @ \o [i \in 1..Len(order) |-> <<order[i], "Remove">>]]
                 c2 == [c1 EXCEPT !.outgoing = {}, !.auto_leave = FALSE]
                 ci == check_invariants(c2, prs)
             IN  IF ci # "" THEN Err(ci, c2, prs.changes)
                 ELSE Ok(c2, prs.changes)

\* Variant: the staged learners are dropped instead of being promoted.
leave_joint_drop_staged(tconf, tprogress, order) ==
    LET cc == check_and_copy(tconf, tprogress)
    IN  IF cc.err # "" THEN Err(cc.err, tconf, <<>>)
        ELSE IF cc.cfg.outgoing = {}
        THEN Err("configuration is not joint", cc.cfg, <<>>)
        ELSE LET c1 == [cc.cfg EXCEPT !.learners_next = {}]
                 gone(e) == e \notin c1.incoming /\ e \notin c1.learners
                 rm == SelectSeq(order, gone)
                 prs == [cc.prs EXCEPT !.changes =
                            @ \o [i \in 1..Len(rm) |-> <<rm[i], "Remove">>]]
                 c2 == [c1 EXCEPT !.outgoing = {}, !.auto_leave = FALSE]
                 ci == check_invariants(c2, prs)
             IN  IF ci # "" THEN Err(ci, c2, prs.changes)
                 ELSE Ok(c2, prs.changes)

\* Variant: the loop over the outgoing voters is missing, nothing is removed.
leave_joint_keep_progress(tconf, tprogress, order) ==
    LET cc == check_and_copy(tconf, tprogress)
    IN  IF cc.err # "" THEN Err(cc.err, tconf, <<>>)
        ELSE IF cc.cfg.outgoing = {}
        THEN Err("configuration is not joint", cc.cfg, <<>>)
        ELSE LET c1 == [cc.cfg EXCEPT !.learners = @ \cup cc.cfg.learners_next,
                                       !.learners_next = {}]
                 c2 == [c1 EXCEPT !.outgoing = {}, !.auto_leave = FALSE]
                 ci == check_invariants(c2, cc.prs)
             IN  IF ci # "" THEN Err(ci, c2, cc.prs.changes)
                 ELSE Ok(c2, cc.prs.changes)

\* Changer::leave_joint from check_and_copy on; `order` is the iteration
\* order of cfg.voters.outgoing.
leave_joint_staged(tconf, tprogress, order) ==
    LET cc == check_and_copy(tconf, tprogress)
    IN  IF cc.err # "" THEN Err(cc.err, tconf, <<>>)
        ELSE IF cc.cfg.outgoing = {}
        THEN Err("configuration is not joint", cc.cfg, <<>>)
        ELSE LET c1 == [cc.cfg EXCEPT !.learners = @ \cup cc.cfg.learners_next,
                                       !.learners_next = {}]
                 gone(e) == e \notin c1.incoming /\ e \notin c1.learners
                 rm == SelectSeq(order, gone)
                 prs == [cc.prs EXCEPT !.changes =
                            @ \o [i \in 1..Len(rm) |-> <<rm[i], "Remove">>]]
                 c2 == [c1 EXCEPT !.outgoing = {}, !.auto_leave = FALSE]
                 ci == check_invariants(c2, prs)
             IN  IF ci # "" THEN Err(ci, c2, prs.changes)
                 ELSE Ok(c2, prs.changes)

\* Variant: no "can't leave a non-joint config" guard.
leave_joint_unguarded(tconf, tprogress, order) ==
    leave_joint_staged(tconf, tprogress, order)

\* Changer::leave_joint
leave_joint(tconf, tprogress, order) ==
    IF ~joint(tconf) THEN Err("can't leave a non-joint config", tconf, <<>>)
    ELSE leave_joint_staged(tconf, tprogress, order)

\* Variant: only the voters that were added are counted.
only_added(A, B) == A \ B

\* HashSet::symmetric_difference, as used by Changer::simple
symmetric_difference(A, B) == (A \ B) \cup (B \ A)

\* Variant: the number of changed voters is checked before the edits are
\* checked for having removed all voters.
simple_staged_count_first(tconf, tprogress, ccs) ==
    LET cc == check_and_copy(tconf, tprogress)
    IN  IF cc.err # "" THEN Err(cc.err, tconf, <<>>)
        ELSE LET ap == apply(cc.cfg, cc.prs, ccs)
             IN  IF Cardinality(symmetric_difference(
                                ap.cfg.incoming, tconf.incoming)) > 1
                 THEN Err("more than one voter changed without entering joint config",
                          ap.cfg, ap.prs.changes)
                 ELSE IF ap.err # "" THEN Err(ap.err, ap.cfg, ap.prs.changes)
                 ELSE LET ci == check_invariants(ap.cfg, ap.prs)
                      IN  IF ci # "" THEN Err(ci, ap.cfg, ap.prs.changes)
                          ELSE Ok(ap.cfg, ap.prs.changes)

\* Changer::simple from check_and_copy on.
simple_staged(tconf, tprogress, ccs) ==
    LET cc == check_and_copy(tconf, tprogress)
    IN  IF cc.err # "" THEN Err(cc.err, tconf, <<>>)
        ELSE LET ap == apply(cc.cfg, cc.prs, ccs)
             IN  IF ap.err # "" THEN Err(ap.err, ap.cfg, ap.prs.changes)
                 ELSE IF Cardinality(symmetric_difference(
                                ap.cfg.incoming, tconf.incoming)) > 1
                 THEN Err("more than one voter changed without entering joint config",
                          ap.cfg, ap.prs.changes)
                 ELSE LET ci == check_invariants(ap.cfg, ap.prs)
                      IN  IF ci # "" THEN Err(ci, ap.cfg, ap.prs.changes)
                          ELSE Ok(ap.cfg, ap.prs.changes)

\* Variant: no joint guard.
simple_in_joint(tconf, tprogress, ccs) ==
    simple_staged(tconf, tprogress, ccs)

\* Changer::simple
simple(tconf, tprogress, ccs) ==
    IF joint(tconf)
    THEN Err("can't apply simple config change in joint config", tconf, <<>>)
    ELSE simple_staged(tconf, tprogress, ccs)

\* ---------------------------------------------------------- tracker
\* ProgressTracker::apply_conf: the progress keys after the changes are
\* applied in order.
RECURSIVE apply_changes(_, _)
apply_changes(prog, changes) ==
    IF changes = <<>> THEN prog
    ELSE apply_changes(
            IF Head(changes)[2] = "Add" THEN prog \cup {Head(changes)[1]}
            ELSE prog \ {Head(changes)[1]},
            Tail(changes))

\* Variant: the edits are made on the tracker itself, so what an early return
\* drops is installed all the same.
install_dropped(r, tconf, tprogress) ==
    IF r.ok
    THEN [conf |-> r.cfg, progress |-> apply_changes(tprogress, r.changes)]
    ELSE [conf |-> r.dropped_cfg,
          progress |-> apply_changes(tprogress, r.dropped_changes)]

\* The `match execute_commands(..)` of the command loop: Ok installs the
\* configuration and its changes, Err leaves the tracker alone.
install(r, tconf, tprogress) ==
    IF r.ok
    THEN [conf |-> r.cfg, progress |-> apply_changes(tprogress, r.changes)]
    ELSE [conf |-> tconf, progress |-> tprogress]

\* ------------------------------------------------------------ actions
Init ==
    /\ conf = EmptyConf
    /\ progress = {}
    /\ pc = "idle"
    /\ cmd = NoCmd
    /\ res = NoRes
    /\ prev = [conf |-> EmptyConf, progress |-> {}]
    /\ query = NoQuery
    /\ answer = NoAnswer
    /\ calls = NoCalls

\* The body of one loop iteration: `command` was executed and returned r.
Run(command, r) ==
    LET t == install(r, conf, progress)
    IN  /\ cmd' = command
        /\ res' = r
        /\ prev' = [conf |-> conf, progress |-> progress]
        /\ conf' = t.conf
        /\ progress' = t.progress
        /\ pc' = "done"
        /\ UNCHANGED <<query, answer, calls>>

\* CommandType::Simple
ExecSimple ==
    /\ pc = "idle"
    /\ \E ccs \in Batches :
          Run([op |-> "simple", auto_leave |-> FALSE, ccs |-> ccs],
              simple(conf, progress, ccs))

\* CommandType::EnterJoint / EnterJointWithAutoLeave
ExecEnterJoint ==
    /\ pc = "idle"
    /\ \E ccs \in Batches, al \in BOOLEAN :
          Run([op |-> "enter_joint", auto_leave |-> al, ccs |-> ccs],
              enter_joint(conf, progress, al, ccs))

\* CommandType::LeaveJoint
ExecLeaveJoint ==
    /\ pc = "idle"
    /\ \E order \in IterOrders(conf.outgoing) :
          Run([op |-> "leave_joint", auto_leave |-> FALSE, ccs |-> <<>>],
              leave_joint(conf, progress, order))

\* End of the iteration: the command and its result go out of scope and the
\* loop takes the next command against the tracker as it now is.
NextCommand ==
    /\ pc = "done"
    /\ pc' = "idle"
    /\ cmd' = NoCmd
    /\ res' = NoRes
    /\ prev' = [conf |-> conf, progress |-> progress]
    /\ UNCHANGED <<conf, progress, query, answer, calls>>

Next ==
    \/ ExecSimple
    \/ ExecEnterJoint
    \/ ExecLeaveJoint
    \/ NextCommand

Spec == Init /\ [][Next]_vars

\* ------------------------------------------------- callers side by side
\* A Changer only borrows the tracker (tracker: &ProgressTracker) and simple
\* returns owned values, so any number of callers can compute a change from
\* the same tracker before one of them installs.  Callers here call simple
\* with every batch; those that get Ok hold the result.
CallSimple ==
    /\ calls = NoCalls
    /\ calls' = [calls EXCEPT !.pending =
                    {r \in {simple(conf, progress, ccs) : ccs \in Batches} : r.ok}]
    /\ UNCHANGED <<conf, progress, pc, cmd, res, prev, query, answer>>

\* A caller installs the result it holds, whatever the tracker is by now.  A
\* second caller of the same round installs over the first one's result; its
\* own result was computed before that.
InstallCall ==
    /\ calls.installed < 2
    /\ \E r \in calls.pending :
          LET t == install(r, conf, progress)
          IN  /\ prev' = [conf |-> conf, progress |-> progress]
              /\ conf' = t.conf
              /\ progress' = t.progress
    /\ calls' = [pending |-> IF calls.installed = 0 THEN calls.pending ELSE {},
                 installed |-> calls.installed + 1]
    /\ UNCHANGED <<pc, cmd, res, query, answer>>

\* The round is over; later callers compute from the tracker as it is now.
FinishCalls ==
    /\ calls.installed > 0
    /\ calls' = NoCalls
    /\ UNCHANGED <<conf, progress, pc, cmd, res, prev, query, answer>>

ConcurrentNext ==
    \/ CallSimple
    \/ InstallCall
    \/ FinishCalls

\* simple() used by callers that do not wait for each other.
ConcurrentSpec == Init /\ [][ConcurrentNext]_vars

\* ------------------------------------------------------------ quorum
\* crate::util::majority
majority(n) == n \div 2 + 1

\* A vote assignment: check(id) is Some(true), Some(false) or None.
Votes == {"yes", "no", "none"}

\* Variant: more yes than no votes win.
majority_vote_result_plurality(voters, check) ==
    IF voters = {} THEN "Won"
    ELSE LET yes == Cardinality({v \in voters : check[v] = "yes"})
             no == Cardinality({v \in voters : check[v] = "no"})
             missing == Cardinality({v \in voters : check[v] = "none"})
             q == majority(Cardinality(voters))
         IN  IF yes > no THEN "Won"
             ELSE IF yes + missing >= q THEN "Pending"
             ELSE "Lost"

\* Variant: no early return for the empty voter set.
majority_vote_result_no_empty_case(voters, check) ==
    LET yes == Cardinality({v \in voters : check[v] = "yes"})
        missing == Cardinality({v \in voters : check[v] = "none"})
        q == majority(Cardinality(voters))
    IN  IF yes >= q THEN "Won"
        ELSE IF yes + missing >= q THEN "Pending"
        ELSE "Lost"

\* Variant: a vote stays pending only while yes and missing votes together
\* exceed the quorum.
majority_vote_result_lost_early(voters, check) ==
    IF voters = {} THEN "Won"
    ELSE LET yes == Cardinality({v \in voters : check[v] = "yes"})
             missing == Cardinality({v \in voters : check[v] = "none"})
             q == majority(Cardinality(voters))
         IN  IF yes >= q THEN "Won"
             ELSE IF yes + missing > q THEN "Pending"
             ELSE "Lost"

\* Variant: a vote is won only with more than a quorum of yes votes.
majority_vote_result_strict(voters, check) ==
    IF voters = {} THEN "Won"
    ELSE LET yes == Cardinality({v \in voters : check[v] = "yes"})
             missing == Cardinality({v \in voters : check[v] = "none"})
             q == majority(Cardinality(voters))
         IN  IF yes > q THEN "Won"
             ELSE IF yes + missing >= q THEN "Pending"
             ELSE "Lost"

\* MajorityConfig::vote_result
majority_vote_result(voters, check) ==
    IF voters = {} THEN "Won"
    ELSE LET yes == Cardinality({v \in voters : check[v] = "yes"})
             missing == Cardinality({v \in voters : check[v] = "none"})
             q == majority(Cardinality(voters))
         IN  IF yes >= q THEN "Won"
             ELSE IF yes + missing >= q THEN "Pending"
             ELSE "Lost"

\* Variant: the (Won, Won) arm is missing, the default arm answers.
joint_vote_result_no_won_arm(incoming, outgoing, check) ==
    LET i == majority_vote_result(incoming, check)
        o == majority_vote_result(outgoing, check)
    IN  IF i = "Lost" \/ o = "Lost" THEN "Lost"
        ELSE "Pending"

\* Variant: lost only when lost in both halves.
joint_vote_result_lost_in_both(incoming, outgoing, check) ==
    LET i == majority_vote_result(incoming, check)
        o == majority_vote_result(outgoing, check)
    IN  IF i = "Won" /\ o = "Won" THEN "Won"
        ELSE IF i = "Lost" /\ o = "Lost" THEN "Lost"
        ELSE "Pending"

\* JointConfig::vote_result
joint_vote_result(incoming, outgoing, check) ==
    LET i == majority_vote_result(incoming, check)
        o == majority_vote_result(outgoing, check)
    IN  IF i = "Won" /\ o = "Won" THEN "Won"
        ELSE IF i = "Lost" \/ o = "Lost" THEN "Lost"
        ELSE "Pending"

\* u64::MAX, the committed index of the empty MajorityConfig.  TLC's integers
\* are 32 bits wide: the largest of them stands for 2^64 - 1.  The value is
\* only compared and passed to min, never computed with.
U64_MAX == 2147483647

\* struct Index { index, group_id }
Indexes == [index : 0..MaxIndex, group_id : 0..MaxGroup]

\* Index::default()
DefaultIndex == [index |-> 0, group_id |-> 0]

\* AckIndexer = HashMap<u64, Index>: every map with keys among ids.
AckIndexers(ids) == UNION {[D -> Indexes] : D \in SUBSET ids}

\* AckIndexer::acked_index(voter).unwrap_or_default()
acked_index_or_default(l, voter) ==
    IF voter \in DOMAIN l THEN l[voter] ELSE DefaultIndex

\* cmp::min
min(a, b) == IF a <= b THEN a ELSE b

\* Variant: the comparator is a.index.cmp(&b.index), ascending.
RECURSIVE insert_ascending(_, _)
insert_ascending(sorted, x) ==
    IF sorted = <<>> THEN <<x>>
    ELSE IF Head(sorted).index <= x.index
    THEN <<Head(sorted)>> \o insert_ascending(Tail(sorted), x)
    ELSE <<x>> \o sorted

\* One step of the stable sort: x goes behind every element that does not
\* compare greater under |a, b| b.index.cmp(&a.index), so behind its equals.
RECURSIVE insert_by_index(_, _)
insert_by_index(sorted, x) ==
    IF sorted = <<>> THEN <<x>>
    ELSE IF Head(sorted).index >= x.index
    THEN <<Head(sorted)>> \o insert_by_index(Tail(sorted), x)
    ELSE <<x>> \o sorted

\* Variant: the buffer is left in iteration order.
sort_by_index_skipped(arr) == arr

\* matched.sort_by(|a, b| b.index.cmp(&a.index)): stable, descending index.
RECURSIVE sort_by_index(_)
sort_by_index(arr) ==
    IF arr = <<>> THEN <<>>
    ELSE insert_by_index(sort_by_index(SubSeq(arr, 1, Len(arr) - 1)), arr[Len(arr)])

\* Variant: a conflicting group answers the lowest acknowledged index.
RECURSIVE group_commit_scan_conflict_floor(_, _, _, _, _)
group_commit_scan_conflict_floor(matched, i, checked_group_id, single_group, quorum_commit_index) ==
    IF i > Len(matched)
    THEN IF single_group THEN <<quorum_commit_index, FALSE>>
         ELSE <<matched[Len(matched)].index, FALSE>>
    ELSE LET m == matched[i]
         IN  IF m.group_id = 0
             THEN group_commit_scan_conflict_floor(matched, i + 1, checked_group_id,
                                                   FALSE, quorum_commit_index)
             ELSE IF checked_group_id = 0
             THEN group_commit_scan_conflict_floor(matched, i + 1, m.group_id,
                                                   single_group, quorum_commit_index)
             ELSE IF checked_group_id = m.group_id
             THEN group_commit_scan_conflict_floor(matched, i + 1, checked_group_id,
                                                   single_group, quorum_commit_index)
             ELSE <<matched[Len(matched)].index, TRUE>>

\* Variant: a checked group of 0 is never replaced by an entry's group.
RECURSIVE group_commit_scan_keep_unset(_, _, _, _, _)
group_commit_scan_keep_unset(matched, i, checked_group_id, single_group, quorum_commit_index) ==
    IF i > Len(matched)
    THEN IF single_group THEN <<quorum_commit_index, FALSE>>
         ELSE <<matched[Len(matched)].index, FALSE>>
    ELSE LET m == matched[i]
         IN  IF m.group_id = 0
             THEN group_commit_scan_keep_unset(matched, i + 1, checked_group_id,
                                               FALSE, quorum_commit_index)
             ELSE IF checked_group_id = 0
             THEN group_commit_scan_keep_unset(matched, i + 1, checked_group_id,
                                               single_group, quorum_commit_index)
             ELSE IF checked_group_id = m.group_id
             THEN group_commit_scan_keep_unset(matched, i + 1, checked_group_id,
                                               single_group, quorum_commit_index)
             ELSE <<min(m.index, quorum_commit_index), TRUE>>

\* Variant: an entry of group 0 does not clear single_group.
RECURSIVE group_commit_scan_count_ungrouped(_, _, _, _, _)
group_commit_scan_count_ungrouped(matched, i, checked_group_id, single_group, quorum_commit_index) ==
    IF i > Len(matched)
    THEN IF single_group THEN <<quorum_commit_index, FALSE>>
         ELSE <<matched[Len(matched)].index, FALSE>>
    ELSE LET m == matched[i]
         IN  IF m.group_id = 0
             THEN group_commit_scan_count_ungrouped(matched, i + 1, checked_group_id,
                                                    single_group, quorum_commit_index)
             ELSE IF checked_group_id = 0
             THEN group_commit_scan_count_ungrouped(matched, i + 1, m.group_id,
                                                    single_group, quorum_commit_index)
             ELSE IF checked_group_id = m.group_id
             THEN group_commit_scan_count_ungrouped(matched, i + 1, checked_group_id,
                                                    single_group, quorum_commit_index)
             ELSE <<min(m.index, quorum_commit_index), TRUE>>

\* Variant: a conflicting group answers its own index, not capped by the
\* quorum index.
RECURSIVE group_commit_scan_uncapped(_, _, _, _, _)
group_commit_scan_uncapped(matched, i, checked_group_id, single_group, quorum_commit_index) ==
    IF i > Len(matched)
    THEN IF single_group THEN <<quorum_commit_index, FALSE>>
         ELSE <<matched[Len(matched)].index, FALSE>>
    ELSE LET m == matched[i]
         IN  IF m.group_id = 0
             THEN group_commit_scan_uncapped(matched, i + 1, checked_group_id, FALSE,
                                             quorum_commit_index)
             ELSE IF checked_group_id = 0
             THEN group_commit_scan_uncapped(matched, i + 1, m.group_id, single_group,
                                             quorum_commit_index)
             ELSE IF checked_group_id = m.group_id
             THEN group_commit_scan_uncapped(matched, i + 1, checked_group_id,
                                             single_group, quorum_commit_index)
             ELSE <<m.index, TRUE>>

\* The `for m in matched.iter()` loop of MajorityConfig::committed_index and
\* the return after it.
RECURSIVE group_commit_scan(_, _, _, _, _)
group_commit_scan(matched, i, checked_group_id, single_group, quorum_commit_index) ==
    IF i > Len(matched)
    THEN IF single_group THEN <<quorum_commit_index, FALSE>>
         ELSE <<matched[Len(matched)].index, FALSE>>
    ELSE LET m == matched[i]
         IN  IF m.group_id = 0
             THEN group_commit_scan(matched, i + 1, checked_group_id, FALSE,
                                    quorum_commit_index)
             ELSE IF checked_group_id = 0
             THEN group_commit_scan(matched, i + 1, m.group_id, single_group,
                                    quorum_commit_index)
             ELSE IF checked_group_id = m.group_id
             THEN group_commit_scan(matched, i + 1, checked_group_id, single_group,
                                    quorum_commit_index)
             ELSE <<min(m.index, quorum_commit_index), TRUE>>

\* MajorityConfig::committed_index for a non-empty voter set; `order` is the
\* iteration order of self.voters.  Both buffers (stack up to 7 voters, heap
\* beyond) hold the same entries.
committed_index_of(voters, use_group_commit, l, order) ==
    LET arr == [i \in 1..Len(order) |-> acked_index_or_default(l, order[i])]
        matched == sort_by_index(arr)
        quorum == majority(Len(matched))
        quorum_index == matched[quorum]
    IN  IF ~use_group_commit THEN <<quorum_index.index, FALSE>>
        ELSE group_commit_scan(matched, 1, quorum_index.group_id, TRUE,
                               quorum_index.index)

\* Variant: the empty voter set has committed nothing.
majority_committed_index_empty_zero(voters, use_group_commit, l, order) ==
    IF voters = {} THEN <<0, TRUE>>
    ELSE committed_index_of(voters, use_group_commit, l, order)

\* MajorityConfig::committed_index
majority_committed_index(voters, use_group_commit, l, order) ==
    IF voters = {} THEN <<U64_MAX, TRUE>>
    ELSE committed_index_of(voters, use_group_commit, l, order)

\* Variant: the flag is set when either half sets it.
joint_committed_index_either_flag(incoming, outgoing, use_group_commit, l, i_order, o_order) ==
    LET i == majority_committed_index(incoming, use_group_commit, l, i_order)
        o == majority_committed_index(outgoing, use_group_commit, l, o_order)
    IN  <<min(i[1], o[1]), i[2] \/ o[2]>>

\* Variant: the flag of the incoming half alone is returned.
joint_committed_index_incoming_flag(incoming, outgoing, use_group_commit, l, i_order, o_order) ==
    LET i == majority_committed_index(incoming, use_group_commit, l, i_order)
        o == majority_committed_index(outgoing, use_group_commit, l, o_order)
    IN  <<min(i[1], o[1]), i[2]>>

\* JointConfig::committed_index
joint_committed_index(incoming, outgoing, use_group_commit, l, i_order, o_order) ==
    LET i == majority_committed_index(incoming, use_group_commit, l, i_order)
        o == majority_committed_index(outgoing, use_group_commit, l, o_order)
    IN  <<min(i[1], o[1]), i[2] /\ o[2]>>

\* ------------------------------------------------------ quorum queries
QVoters == 1..MaxVoters
JointVoters == 1..MaxJointVoters

\* The iteration orders of self.voters that are worth telling apart.  The
\* sort is stable, so what it makes of any iteration order is also what it
\* makes of an order that is sorted already (its own result); only those
\* orders are enumerated: every arrangement of the voters by descending
\* acknowledged index, the voters of equal index in every order.
RECURSIVE SortedIterOrders(_, _)
SortedIterOrders(voters, l) ==
    IF voters = {} THEN {<<>>}
    ELSE LET top == CHOOSE v \in voters :
                        \A w \in voters : acked_index_or_default(l, w).index
                                            <= acked_index_or_default(l, v).index
             tied == {v \in voters : acked_index_or_default(l, v).index
                                      = acked_index_or_default(l, top).index}
         IN  {p \o r : p \in IterOrders(tied),
                       r \in SortedIterOrders(voters \ tied, l)}

\* c.committed_index(use_group_commit, &l) is asked of a MajorityConfig c,
\* for every voter set, both flags and every map of acknowledged indexes.
MajorityCommitQuery ==
    \E voters \in SUBSET QVoters, use_group_commit \in BOOLEAN :
        \E l \in AckIndexers(voters) :
            query = [kind |-> "majority_commit", done |-> FALSE,
                     voters |-> voters,
                     use_group_commit |-> use_group_commit, l |-> l]

\* JointConfig::new_joint(incoming, outgoing).committed_index(use_group_commit, &l)
\* is asked.
JointCommitQuery ==
    \E incoming \in SUBSET JointVoters, outgoing \in SUBSET JointVoters,
       use_group_commit \in BOOLEAN :
        \E l \in AckIndexers(incoming \cup outgoing) :
            query = [kind |-> "joint_commit", done |-> FALSE,
                     incoming |-> incoming, outgoing |-> outgoing,
                     use_group_commit |-> use_group_commit, l |-> l]

\* The positions of voters 1, 2, 3 in the three-voter rows of the test table
\* of test_joint_commit_multi_group.
TestPositions == <<77, 88, 99>>

\* A three-voter row of test_joint_commit_multi_group is asked, with any
\* assignment of group ids: JointConfig::new_joint(c, cj).committed_index(..)
\* with cj the empty MajorityConfig.
TestCaseQuery ==
    \E group_ids \in [1..Len(TestPositions) -> 0..MaxGroup],
       use_group_commit \in BOOLEAN :
        query = [kind |-> "joint_commit", done |-> FALSE,
                 incoming |-> 1..Len(TestPositions), outgoing |-> {},
                 use_group_commit |-> use_group_commit,
                 l |-> [v \in 1..Len(TestPositions) |->
                           [index |-> TestPositions[v],
                            group_id |-> group_ids[v]]]]

\* c.vote_result(check) is asked of a MajorityConfig c.
MajorityVoteQuery ==
    \E voters \in SUBSET QVoters, check \in [QVoters -> Votes] :
        query = [kind |-> "majority_vote", done |-> FALSE,
                 voters |-> voters, check |-> check]

\* JointConfig::new_joint(incoming, outgoing).vote_result(check) is asked.
JointVoteQuery ==
    \E incoming \in SUBSET QVoters, outgoing \in SUBSET QVoters,
       check \in [QVoters -> Votes] :
        query = [kind |-> "joint_vote", done |-> FALSE,
                 incoming |-> incoming, outgoing |-> outgoing, check |-> check]

\* A query is made of a configuration built for it; the tracker plays no part.
QuorumInit ==
    /\ conf = EmptyConf
    /\ progress = {}
    /\ pc = "idle"
    /\ cmd = NoCmd
    /\ res = NoRes
    /\ prev = [conf |-> EmptyConf, progress |-> {}]
    /\ \/ MajorityCommitQuery
       \/ JointCommitQuery
       \/ TestCaseQuery
       \/ MajorityVoteQuery
       \/ JointVoteQuery
    /\ answer = NoAnswer
    /\ calls = NoCalls

\* MajorityConfig::committed_index
MajorityCommittedIndex ==
    /\ query.kind = "majority_commit" /\ ~query.done
    /\ \E order \in SortedIterOrders(query.voters, query.l) :
          answer' = majority_committed_index(query.voters, query.use_group_commit,
                                             query.l, order)
    /\ query' = [query EXCEPT !.done = TRUE]
    /\ UNCHANGED <<conf, progress, pc, cmd, res, prev, calls>>

\* JointConfig::committed_index
JointCommittedIndex ==
    /\ query.kind = "joint_commit" /\ ~query.done
    /\ \E i_order \in SortedIterOrders(query.incoming, query.l),
          o_order \in SortedIterOrders(query.outgoing, query.l) :
          answer' = joint_committed_index(query.incoming, query.outgoing,
                                          query.use_group_commit, query.l,
                                          i_order, o_order)
    /\ query' = [query EXCEPT !.done = TRUE]
    /\ UNCHANGED <<conf, progress, pc, cmd, res, prev, calls>>

\* MajorityConfig::vote_result
MajorityVoteResult ==
    /\ query.kind = "majority_vote" /\ ~query.done
    /\ answer' = majority_vote_result(query.voters, query.check)
    /\ query' = [query EXCEPT !.done = TRUE]
    /\ UNCHANGED <<conf, progress, pc, cmd, res, prev, calls>>

\* JointConfig::vote_result
JointVoteResult ==
    /\ query.kind = "joint_vote" /\ ~query.done
    /\ answer' = joint_vote_result(query.incoming, query.outgoing, query.check)
    /\ query' = [query EXCEPT !.done = TRUE]
    /\ UNCHANGED <<conf, progress, pc, cmd, res, prev, calls>>

QuorumNext ==
    \/ MajorityCommittedIndex
    \/ JointCommittedIndex
    \/ MajorityVoteResult
    \/ JointVoteResult

\* The quorum queries on their own: every query within the bounds is asked
\* once and answered.
QuorumSpec == QuorumInit /\ [][QuorumNext]_vars

\* A committed-index query is made.
CommitInit ==
    /\ conf = EmptyConf
    /\ progress = {}
    /\ pc = "idle"
    /\ cmd = NoCmd
    /\ res = NoRes
    /\ prev = [conf |-> EmptyConf, progress |-> {}]
    /\ \/ MajorityCommitQuery
       \/ JointCommitQuery
    /\ answer = NoAnswer
    /\ calls = NoCalls

CommitNext ==
    \/ MajorityCommittedIndex
    \/ JointCommittedIndex

\* The committed-index queries on their own.
CommitSpec == CommitInit /\ [][CommitNext]_vars

\* A committed-index query is made of a MajorityConfig.
IterationInit ==
    /\ conf = EmptyConf
    /\ progress = {}
    /\ pc = "idle"
    /\ cmd = NoCmd
    /\ res = NoRes
    /\ prev = [conf |-> EmptyConf, progress |-> {}]
    /\ MajorityCommitQuery
    /\ answer = NoAnswer
    /\ calls = NoCalls

\* MajorityConfig::committed_index, the HashSet of voters iterated in any
\* order whatever.
MajorityCommittedIndexInAnyOrder ==
    /\ query.kind = "majority_commit" /\ ~query.done
    /\ \E order \in IterOrders(query.voters) :
          answer' = majority_committed_index(query.voters, query.use_group_commit,
                                             query.l, order)
    /\ query' = [query EXCEPT !.done = TRUE]
    /\ UNCHANGED <<conf, progress, pc, cmd, res, prev, calls>>

\* MajorityConfig::committed_index under every iteration order of the voters.
IterationSpec == IterationInit /\ [][MajorityCommittedIndexInAnyOrder]_vars

\* The query of the given kind has been answered.
Answered(kind) == query.kind = kind /\ query.done

\* ------------------------------------------------------------ properties
Done == pc = "done"

\* The incoming voter set a batch is expected to leave behind: AddNode puts
\* the id in, AddLearnerNode and RemoveNode take it out, id 0 is skipped.
RECURSIVE IncomingAfter(_, _)
IncomingAfter(inc, ccs) ==
    IF ccs = <<>> THEN inc
    ELSE LET cc == Head(ccs)
         IN  IncomingAfter(
                 IF cc.node_id = 0 THEN inc
                 ELSE IF cc.change_type = "AddNode" THEN inc \cup {cc.node_id}
                 ELSE inc \ {cc.node_id},
                 Tail(ccs))

\* Number of ids in exactly one of A and B.
VoterChange(A, B) == Cardinality({x \in A \cup B : ~(x \in A /\ x \in B)})

\* S is a quorum of cfg: the vote is Won when exactly the ids of S vote yes
\* and all others vote no.
IsQuorum(cfg, S) ==
    joint_vote_result(cfg.incoming, cfg.outgoing,
                      [id \in NodeIds |-> IF id \in S THEN "yes" ELSE "no"]) = "Won"

\* C1: every installed configuration satisfies (a) every id of incoming,
\* outgoing, learners and learners_next has a progress entry, (b) learners is
\* disjoint from incoming and from outgoing, (c) learners_next is a subset of
\* outgoing, (d) a non-joint configuration has no learners_next and
\* auto_leave false.
C1_InstalledConfInvariants ==
    /\ conf.incoming \cup conf.outgoing \cup conf.learners \cup conf.learners_next
          \subseteq progress
    /\ conf.learners \cap conf.incoming = {}
    /\ conf.learners \cap conf.outgoing = {}
    /\ conf.learners_next \subseteq conf.outgoing
    /\ conf.outgoing = {} => (conf.learners_next = {} /\ ~conf.auto_leave)

\* A joint configuration with a staged learner and auto_leave was installed.
C1_Witness ==
    /\ Done /\ res.ok
    /\ conf.learners_next # {} /\ conf.auto_leave
    /\ conf.incoming # conf.outgoing

\* C2: every successful operation from a configuration with voters to the
\* next keeps quorum overlap: each quorum of the old configuration meets each
\* quorum of the new one.
C2_QuorumOverlap ==
    (Done /\ res.ok /\ prev.conf.incoming # {}) =>
        \A S, T \in SUBSET NodeIds :
            (IsQuorum(prev.conf, S) /\ IsQuorum(conf, T)) => S \cap T # {}

\* enter_joint replaced every voter: the two halves are disjoint.
C2_Witness ==
    /\ Done /\ res.ok /\ cmd.op = "enter_joint"
    /\ prev.conf.incoming # {}
    /\ conf.incoming \cap conf.outgoing = {}

\* C3: an operation that returns an error leaves configuration and progress
\* map as they were, and its Result carries no configuration and no delta.
C3_ErrorLeavesTrackerUntouched ==
    (Done /\ ~res.ok) =>
        /\ conf = prev.conf
        /\ progress = prev.progress
        /\ "cfg" \notin DOMAIN res
        /\ "changes" \notin DOMAIN res

\* A batch was rejected after its edits had changed the private copy.
C3_Witness ==
    /\ Done /\ ~res.ok
    /\ cmd.op \in {"simple", "enter_joint"}
    /\ res.dropped_cfg # prev.conf
    /\ res.dropped_changes # <<>>

\* C4: a simple or enter_joint batch that gets to its edits and leaves
\* incoming empty fails with "removed all voters", and an installed
\* configuration has no voter only if it is the initial empty one.
C4_IncomingNeverEmptied ==
    /\ (/\ Done
        /\ cmd.op \in {"simple", "enter_joint"}
        /\ ~joint(prev.conf)
        /\ (cmd.op = "enter_joint" => prev.conf.incoming # {})
        /\ IncomingAfter(prev.conf.incoming, cmd.ccs) = {})
       => (~res.ok /\ res.err = "removed all voters")
    /\ conf.incoming = {} => (conf = EmptyConf /\ progress = {})

\* A batch that removed the voters of a non-empty configuration was rejected.
C4_Witness ==
    /\ Done /\ cmd.op = "simple"
    /\ prev.conf.incoming # {}
    /\ res.err = "removed all voters"

\* C5: simple on a non-joint configuration fails with "more than one voter
\* changed" exactly when the batch leaves incoming non-empty and different
\* from the old incoming in more than one id; otherwise, incoming being
\* non-empty, it succeeds.
C5_SimpleOneVoterChange ==
    (Done /\ cmd.op = "simple" /\ ~joint(prev.conf)) =>
        LET inc == IncomingAfter(prev.conf.incoming, cmd.ccs)
            many == inc # {} /\ VoterChange(inc, prev.conf.incoming) > 1
        IN  /\ (res.err = "more than one voter changed without entering joint config")
                  <=> many
            /\ (inc # {} /\ ~many) => (res.ok /\ res.cfg.incoming = inc)

\* A voter was demoted and promoted again in one accepted batch.
C5_Witness ==
    /\ Done /\ cmd.op = "simple" /\ res.ok
    /\ Len(cmd.ccs) = 2
    /\ cmd.ccs[1].change_type = "AddLearnerNode"
    /\ cmd.ccs[2].change_type = "AddNode"
    /\ cmd.ccs[1].node_id = cmd.ccs[2].node_id
    /\ cmd.ccs[1].node_id \in prev.conf.incoming

\* C6: enter_joint on a joint configuration fails with "configuration is
\* already joint", whatever the edit list and auto_leave.
C6_EnterJointWhenJoint ==
    (Done /\ cmd.op = "enter_joint" /\ joint(prev.conf)) =>
        (~res.ok /\ res.err = "configuration is already joint")

\* enter_joint with the empty edit list was rejected on a joint configuration.
C6_Witness ==
    /\ Done /\ cmd.op = "enter_joint" /\ joint(prev.conf)
    /\ cmd.ccs = <<>> /\ cmd.auto_leave
    /\ res.err = "configuration is already joint"

\* C7: enter_joint on a configuration without incoming voters fails with
\* "can't make a zero-voter config joint", and from the empty configuration
\* only simple can succeed.
C7_EnterJointZeroVoters ==
    /\ (Done /\ cmd.op = "enter_joint" /\ prev.conf.incoming = {}) =>
           (~res.ok /\ res.err = "can't make a zero-voter config joint")
    /\ (Done /\ prev.conf.incoming = {} /\ res.ok) => cmd.op = "simple"

\* enter_joint with an edit that adds a voter was rejected on the empty
\* configuration.
C7_Witness ==
    /\ Done /\ cmd.op = "enter_joint" /\ prev.conf.incoming = {}
    /\ Len(cmd.ccs) > 0
    /\ cmd.ccs[1].change_type = "AddNode" /\ cmd.ccs[1].node_id # 0
    /\ res.err = "can't make a zero-voter config joint"

\* C8: leave_joint on a non-joint configuration fails with "can't leave a
\* non-joint config"; a successful leave_joint installs a non-joint
\* configuration, so it cannot succeed twice in a row.
C8_LeaveJointWhenNotJoint ==
    /\ (Done /\ cmd.op = "leave_joint" /\ ~joint(prev.conf)) =>
           (~res.ok /\ res.err = "can't leave a non-joint config")
    /\ (Done /\ cmd.op = "leave_joint" /\ res.ok) => ~joint(conf)

\* leave_joint was rejected on a non-empty, non-joint configuration.
C8_Witness ==
    /\ Done /\ cmd.op = "leave_joint" /\ ~joint(prev.conf)
    /\ prev.conf.incoming # {}
    /\ res.err = "can't leave a non-joint config"

\* C9: simple on a joint configuration fails with "can't apply simple config
\* change in joint config"; while joint, only leave_joint succeeds and every
\* other command leaves the configuration as it is.
C9_SimpleWhenJoint ==
    (Done /\ joint(prev.conf)) =>
        /\ cmd.op = "simple" =>
              (~res.ok /\ res.err = "can't apply simple config change in joint config")
        /\ res.ok => cmd.op = "leave_joint"
        /\ cmd.op # "leave_joint" => (conf = prev.conf /\ progress = prev.progress)

\* simple with a non-empty batch was rejected on a joint configuration.
C9_Witness ==
    /\ Done /\ cmd.op = "simple" /\ joint(prev.conf)
    /\ cmd.ccs # <<>>
    /\ ~res.ok

\* C10: a successful enter_joint on non-joint C returns outgoing = C.incoming,
\* incoming = C.incoming with the edits applied, auto_leave = the argument,
\* and the result is joint.
C10_EnterJointResult ==
    (Done /\ cmd.op = "enter_joint" /\ res.ok) =>
        /\ ~joint(prev.conf)
        /\ res.cfg.outgoing = prev.conf.incoming
        /\ res.cfg.incoming = IncomingAfter(prev.conf.incoming, cmd.ccs)
        /\ res.cfg.auto_leave = cmd.auto_leave
        /\ res.cfg.outgoing # {}
        /\ conf = res.cfg

\* enter_joint with auto_leave succeeded with edits that changed incoming.
C10_Witness ==
    /\ Done /\ cmd.op = "enter_joint" /\ res.ok
    /\ cmd.auto_leave
    /\ res.cfg.incoming # res.cfg.outgoing

\* C11: a successful leave_joint on joint C returns incoming = C.incoming,
\* outgoing empty, learners = C.learners united with C.learners_next,
\* learners_next empty and auto_leave false.
C11_LeaveJointResult ==
    (Done /\ cmd.op = "leave_joint" /\ res.ok) =>
        /\ joint(prev.conf)
        /\ res.cfg.incoming = prev.conf.incoming
        /\ res.cfg.outgoing = {}
        /\ res.cfg.learners = prev.conf.learners \cup prev.conf.learners_next
        /\ res.cfg.learners_next = {}
        /\ res.cfg.auto_leave = FALSE
        /\ conf = res.cfg

\* leave_joint promoted a staged learner out of an auto_leave configuration.
C11_Witness ==
    /\ Done /\ cmd.op = "leave_joint" /\ res.ok
    /\ prev.conf.learners_next # {}
    /\ prev.conf.auto_leave
    /\ prev.conf.learners_next \subseteq conf.learners

\* The outgoing voters of cfg that are neither incoming voters nor learners
\* once the staged learners are learners.
Leavers(cfg) ==
    {id \in cfg.outgoing :
        /\ id \notin cfg.incoming
        /\ id \notin cfg.learners
        /\ id \notin cfg.learners_next}

\* C12: the delta of a successful leave_joint holds exactly one Remove for
\* every outgoing voter that is neither an incoming voter nor a learner after
\* the promotion of learners_next, and no other entry.
C12_LeaveJointDelta ==
    (Done /\ cmd.op = "leave_joint" /\ res.ok) =>
        /\ \A i \in 1..Len(res.changes) :
              /\ res.changes[i][2] = "Remove"
              /\ res.changes[i][1] \in Leavers(prev.conf)
        /\ \A id \in Leavers(prev.conf) :
              Cardinality({i \in 1..Len(res.changes) : res.changes[i][1] = id}) = 1
        /\ progress = prev.progress \ Leavers(prev.conf)

\* leave_joint removed the progress of an outgoing voter that left.
C12_Witness ==
    /\ Done /\ cmd.op = "leave_joint" /\ res.ok
    /\ res.changes # <<>>
    /\ prev.progress # progress

\* ------------------------------------------------- quorum properties
\* An acknowledged-index map is drawn with keys among the voters of the
\* query: acked_index is only ever called with a voter's id.

\* The position a voter has acknowledged, 0 without an entry.
Position(l, v) == IF v \in DOMAIN l THEN l[v].index ELSE 0

\* C13: JointConfig queries are symmetric under swapping the halves: for
\* voter sets A and B (disjoint, overlapping or identical), every
\* acknowledged-index assignment, both values of use_group_commit and every
\* vote assignment, committed_index of (A, B) equals committed_index of
\* (B, A) in position and group-commit flag, and vote_result of (A, B)
\* equals vote_result of (B, A).
C13_JointSymmetric ==
    /\ Answered("joint_commit") =>
          \A o_order \in SortedIterOrders(query.outgoing, query.l),
             i_order \in SortedIterOrders(query.incoming, query.l) :
             joint_committed_index(query.outgoing, query.incoming,
                                   query.use_group_commit, query.l,
                                   o_order, i_order) = answer
    /\ Answered("joint_vote") =>
          joint_vote_result(query.outgoing, query.incoming, query.check) = answer

\* A group commit was asked of two different, overlapping halves and found a
\* positive index.
C13_Witness ==
    /\ Answered("joint_commit")
    /\ query.use_group_commit
    /\ query.incoming # query.outgoing
    /\ query.incoming \cap query.outgoing # {}
    /\ answer[1] > 0

\* C14: the empty MajorityConfig is an identity for joint composition: the
\* joint configuration (C, empty) returns the committed_index position and
\* group-commit flag of C alone, for every acknowledged-index assignment and
\* both values of use_group_commit, and the vote_result of C alone for every
\* vote assignment.
C14_EmptyHalfIsIdentity ==
    /\ (Answered("joint_commit") /\ query.outgoing = {}) =>
          \A order \in SortedIterOrders(query.incoming, query.l) :
             majority_committed_index(query.incoming, query.use_group_commit,
                                      query.l, order) = answer
    /\ (Answered("joint_vote") /\ query.outgoing = {}) =>
          majority_vote_result(query.incoming, query.check) = answer

\* (C, empty) answered a group commit with a positive index and the flag set.
C14_Witness ==
    /\ Answered("joint_commit")
    /\ query.outgoing = {} /\ query.incoming # {}
    /\ query.use_group_commit
    /\ answer[1] > 0 /\ answer[2]

\* C15: self-joint is idempotent: the joint configuration (C, C) returns the
\* committed_index position and group-commit flag of C alone, for every
\* acknowledged-index assignment and both values of use_group_commit, and the
\* vote_result of C alone for every vote assignment.
C15_SelfJointIsIdempotent ==
    /\ (Answered("joint_commit") /\ query.outgoing = query.incoming) =>
          \A order \in SortedIterOrders(query.incoming, query.l) :
             majority_committed_index(query.incoming, query.use_group_commit,
                                      query.l, order) = answer
    /\ (Answered("joint_vote") /\ query.outgoing = query.incoming) =>
          majority_vote_result(query.incoming, query.check) = answer

\* (C, C) with two voters won its vote.
C15_Witness ==
    /\ Answered("joint_vote")
    /\ query.outgoing = query.incoming
    /\ Cardinality(query.incoming) >= 2
    /\ answer = "Won"

\* C16: monotonic floor: for a non-empty MajorityConfig whose committed index
\* is v, changing the acknowledged position of one voter whose position is
\* strictly between 0 and v to any value in [0, v), its group id unchanged,
\* leaves the committed index equal to v, with use_group_commit false and
\* with use_group_commit true.
C16_MonotonicFloor ==
    (Answered("majority_commit") /\ query.voters # {}) =>
        \A w \in DOMAIN query.l :
            (0 < query.l[w].index /\ query.l[w].index < answer[1]) =>
                \A p \in 0..(answer[1] - 1) :
                    LET lowered == [query.l EXCEPT ![w].index = p]
                    IN  \A order \in SortedIterOrders(query.voters, lowered) :
                           majority_committed_index(query.voters,
                               query.use_group_commit, lowered, order)[1]
                           = answer[1]

\* A group commit answered an index with a voter's positive position
\* strictly below it.
C16_Witness ==
    /\ Answered("majority_commit")
    /\ query.use_group_commit
    /\ \E w \in DOMAIN query.l :
          0 < query.l[w].index /\ query.l[w].index < answer[1]

\* C17: on an empty voter set MajorityConfig::committed_index returns
\* (u64::MAX, true) for both values of use_group_commit and every
\* acknowledged-index assignment, and MajorityConfig::vote_result returns Won
\* for every vote assignment.
C17_EmptyVoterSet ==
    /\ (Answered("majority_commit") /\ query.voters = {}) =>
          /\ answer = <<U64_MAX, TRUE>>
          /\ \A l \in AckIndexers(QVoters), order \in IterOrders({}) :
                majority_committed_index({}, query.use_group_commit, l, order)
                = <<U64_MAX, TRUE>>
    /\ (Answered("majority_vote") /\ query.voters = {}) => answer = "Won"

\* The empty voter set was asked for its vote while somebody had voted no.
C17_Witness ==
    /\ Answered("majority_vote")
    /\ query.voters = {}
    /\ \E id \in QVoters : query.check[id] = "no"

\* The largest position p that a quorum of the voters has reached, 0 if no
\* positive position has a quorum.
QuorumPosition(voters, l) ==
    LET reached == {p \in 0..MaxIndex :
                       \/ p = 0
                       \/ Cardinality({v \in voters : Position(l, v) >= p})
                             >= Cardinality(voters) \div 2 + 1}
    IN  CHOOSE p \in reached : \A r \in reached : r <= p

\* C18: for a non-empty set of n voters and every acknowledged-index
\* assignment (a voter with no entry counting as position 0),
\* MajorityConfig::committed_index with use_group_commit = false returns
\* (v, false) where v is the largest position p such that at least
\* floor(n/2)+1 voters have acknowledged a position >= p, 0 if there is no
\* such positive p.
C18_PlainMajorityCommit ==
    (Answered("majority_commit") /\ query.voters # {}
        /\ ~query.use_group_commit) =>
        answer = <<QuorumPosition(query.voters, query.l), FALSE>>

\* Three voters, one of them without an entry, have a positive plain commit
\* index.
C18_Witness ==
    /\ Answered("majority_commit")
    /\ ~query.use_group_commit
    /\ Cardinality(query.voters) = 3
    /\ \E v \in query.voters : v \notin DOMAIN query.l
    /\ answer[1] > 0

\* Number of voters for which check answers vote.
Tally(voters, check, vote) == Cardinality({v \in voters : check[v] = vote})

C20_JointVote ==
    Answered("joint_vote") =>
        LET i == majority_vote_result(query.incoming, query.check)
            o == majority_vote_result(query.outgoing, query.check)
        IN  /\ answer = "Won" <=> (i = "Won" /\ o = "Won")
            /\ answer = "Lost" <=> (i = "Lost" \/ o = "Lost")
            /\ answer = "Pending" <=> ~(i = "Won" /\ o = "Won")
                                       /\ ~(i = "Lost" \/ o = "Lost")
            /\ answer \in {"Won", "Lost", "Pending"}

\* A joint vote is lost although one non-empty half has won.
C20_Witness ==
    /\ Answered("joint_vote")
    /\ query.incoming # {} /\ query.outgoing # {}
    /\ majority_vote_result(query.incoming, query.check) = "Won"
    /\ answer = "Lost"

\* C21: JointConfig::committed_index returns as position the minimum of the
\* two halves' committed positions and as flag the logical AND of the two
\* halves' group-commit flags: the joint position never exceeds either half's
\* position and the joint flag is true only when both halves report true.
C21_JointCommitIsMinAndAnd ==
    Answered("joint_commit") =>
        \E i_order \in SortedIterOrders(query.incoming, query.l),
           o_order \in SortedIterOrders(query.outgoing, query.l) :
            LET i == majority_committed_index(query.incoming,
                         query.use_group_commit, query.l, i_order)
                o == majority_committed_index(query.outgoing,
                         query.use_group_commit, query.l, o_order)
            IN  /\ answer[1] <= i[1] /\ answer[1] <= o[1]
                /\ answer[1] = i[1] \/ answer[1] = o[1]
                /\ answer[2] <=> (i[2] /\ o[2])

\* The incoming half alone commits more and sets the flag; the joint answer
\* is lower and has the flag cleared by the outgoing half.
C21_Witness ==
    /\ Answered("joint_commit")
    /\ query.use_group_commit
    /\ query.outgoing # {}
    /\ ~answer[2]
    /\ \E i_order \in SortedIterOrders(query.incoming, query.l) :
          LET i == majority_committed_index(query.incoming, TRUE, query.l, i_order)
          IN  i[2] /\ i[1] > answer[1]

\* Voters {1, 2, 3} with positions 77, 88, 99 and group ids 1, 1, 2 were
\* asked for the group commit index.
IsGroupCommitExample ==
    /\ Answered("joint_commit")
    /\ query.incoming = {1, 2, 3} /\ query.outgoing = {}
    /\ query.use_group_commit
    /\ query.l = (1 :> [index |-> 77, group_id |-> 1]
                  @@ 2 :> [index |-> 88, group_id |-> 1]
                  @@ 3 :> [index |-> 99, group_id |-> 2])

\* C22 as stated: for voters {1,2,3} with acknowledged positions 77, 88, 99
\* and group ids 1, 1, 2, committed_index with use_group_commit = true
\* returns committed index 77 with the group-commit flag true.
C22_AsStated == IsGroupCommitExample => answer = <<77, TRUE>>

\* C22, amended: for voters {1,2,3} with acknowledged positions 77, 88, 99
\* and group ids 1, 1, 2, committed_index with use_group_commit = true
\* returns committed index 88 with the group-commit flag true, from the
\* MajorityConfig alone and joined with the empty MajorityConfig.
C22_GroupCommitExample ==
    IsGroupCommitExample =>
        /\ answer = <<88, TRUE>>
        /\ \A order \in SortedIterOrders(query.incoming, query.l) :
              majority_committed_index(query.incoming, TRUE, query.l, order)
              = <<88, TRUE>>

\* The example was asked and answered with the flag set.
C22_Witness == IsGroupCommitExample /\ answer[2]

Group(l, v) == IF v \in DOMAIN l THEN l[v].group_id ELSE 0

\* The nonzero group ids the voters' entries carry.
NonzeroGroups(voters, l) == {Group(l, v) : v \in voters} \ {0}

\* The largest / smallest element of a non-empty set of numbers.
Largest(S) == CHOOSE x \in S : \A y \in S : y <= x
Smallest(S) == CHOOSE x \in S : \A y \in S : x <= y

\* The groups that may be the checked group: the group of an entry that can
\* stand at the quorum rank (its position is the plain commit index) or, when
\* that group is 0, the group of a highest-position entry with a nonzero
\* group.
CheckedGroups(voters, l) ==
    LET q == QuorumPosition(voters, l)
        at_rank == {Group(l, v) : v \in {w \in voters : Position(l, w) = q}}
        grouped == {v \in voters : Group(l, v) # 0}
    IN  (at_rank \ {0}) \cup
        (IF 0 \in at_rank /\ grouped # {}
         THEN LET top == Largest({Position(l, v) : v \in grouped})
              IN  {Group(l, v) : v \in {w \in grouped : Position(l, w) = top}}
         ELSE {})

\* The highest acknowledged position among the entries whose nonzero group
\* differs from the checked one.
ConflictPosition(voters, l, checked) ==
    Largest({Position(l, v) : v \in {w \in voters : Group(l, w) \notin {0, checked}}})

\* C28: for a non-empty voter set with use_group_commit = true,
\* MajorityConfig::committed_index returns flag true iff the voters' entries
\* carry at least two distinct nonzero group ids; in that case the position
\* is min(q, p), where q is the plain majority commit index and p is the
\* highest acknowledged position among entries whose nonzero group id differs
\* from the checked group (the group of the quorum-rank entry, or, when that
\* group is 0, the group of the highest-position entry with a nonzero group).
C28_GroupCommitConflict ==
    (Answered("majority_commit") /\ query.voters # {}
        /\ query.use_group_commit) =>
        LET q == QuorumPosition(query.voters, query.l)
            checked_groups == CheckedGroups(query.voters, query.l)
        IN  /\ answer[2] <=> Cardinality(NonzeroGroups(query.voters, query.l)) >= 2
            /\ answer[2] =>
                  /\ checked_groups # {}
                  /\ \A checked \in checked_groups :
                        LET p == ConflictPosition(query.voters, query.l, checked)
                        IN  answer[1] = IF p <= q THEN p ELSE q

\* A conflicting group was found below the plain commit index.
C28_Witness ==
    /\ Answered("majority_commit")
    /\ query.use_group_commit
    /\ answer[2]
    /\ answer[1] < QuorumPosition(query.voters, query.l)

\* C29: for a non-empty voter set with use_group_commit = true and no two
\* voters carrying distinct nonzero group ids: if every voter's entry has the
\* same nonzero group id the result is (plain majority commit index, false);
\* if at least one voter has group id 0 or no acknowledged entry at all, the
\* result is (minimum acknowledged position over all voters, counting a
\* missing entry as 0, false).
C29_GroupCommitNoConflict ==
    (Answered("majority_commit") /\ query.voters # {}
        /\ query.use_group_commit
        /\ Cardinality(NonzeroGroups(query.voters, query.l)) <= 1) =>
        IF \A v \in query.voters : Group(query.l, v) # 0
        THEN answer = <<QuorumPosition(query.voters, query.l), FALSE>>
        ELSE answer = <<Smallest({Position(query.l, v) : v \in query.voters}), FALSE>>

\* An entry without a group pulled the answer below the plain commit index,
\* to a positive position.
C29_Witness ==
    /\ Answered("majority_commit")
    /\ query.use_group_commit
    /\ ~answer[2]
    /\ 0 < answer[1]
    /\ answer[1] < QuorumPosition(query.voters, query.l)

\* ------------------------------------------------- single-edit properties
\* The command got past its guards to the edits of its batch.
ReachedEdits ==
    /\ Done
    /\ cmd.op \in {"simple", "enter_joint"}
    /\ ~joint(prev.conf)
    /\ cmd.op = "enter_joint" => prev.conf.incoming # {}

\* The private copy the edits start from: the tracker's configuration, with
\* the incoming voters copied to outgoing by enter_joint, and no change yet.
EditStart ==
    [cfg |-> IF cmd.op = "enter_joint"
             THEN [prev.conf EXCEPT !.outgoing = prev.conf.incoming]
             ELSE prev.conf,
     prs |-> [changes |-> <<>>, base |-> prev.progress]]

\* The private copy after the first k edits of the batch.
AfterEdits(k) == apply_loop(EditStart.cfg, EditStart.prs, SubSeq(cmd.ccs, 1, k))

\* id has a progress entry in the copy st: its last pending change is an Add
\* or, without a pending change, the tracker has an entry.
HasProgress(st, id) ==
    LET named == {i \in 1..Len(st.prs.changes) : st.prs.changes[i][1] = id}
    IN  IF named = {} THEN id \in st.prs.base
        ELSE st.prs.changes[Largest(named)][2] = "Add"

\* The batch's edits were what the command returned.
ResultIsAfterEdits ==
    (ReachedEdits /\ res.ok) =>
        /\ res.cfg = [AfterEdits(Len(cmd.ccs)).cfg EXCEPT !.auto_leave = cmd.auto_leave]
        /\ res.changes = AfterEdits(Len(cmd.ccs)).prs.changes

\* C24: within an enter_joint batch, AddLearner for an id that has a progress
\* entry and is an outgoing voter removes it from incoming and places it in
\* learners_next, never in learners; AddLearner for an id with progress that
\* is not an outgoing voter places it directly in learners; the staged id
\* appears in learners only after the following leave_joint.
C24_LearnerStaging ==
    /\ ResultIsAfterEdits
    /\ (ReachedEdits /\ cmd.op = "enter_joint") =>
          \A k \in 1..Len(cmd.ccs) :
              LET id == cmd.ccs[k].node_id
                  b == AfterEdits(k - 1)
                  a == AfterEdits(k)
              IN  (/\ cmd.ccs[k].change_type = "AddLearnerNode"
                   /\ id # 0
                   /\ HasProgress(b, id)) =>
                      /\ id \notin a.cfg.incoming
                      /\ IF id \in b.cfg.outgoing
                         THEN id \in a.cfg.learners_next /\ id \notin a.cfg.learners
                         ELSE id \in a.cfg.learners /\ id \notin a.cfg.learners_next
    /\ \A id \in conf.learners_next : id \notin conf.learners
    /\ Done =>
          \A id \in prev.conf.learners_next :
              /\ id \in conf.learners => (cmd.op = "leave_joint" /\ res.ok)
              /\ (cmd.op = "leave_joint" /\ res.ok) => id \in conf.learners

\* enter_joint staged a voter as learner, and it is not a learner yet.
C24_Witness ==
    /\ Done /\ cmd.op = "enter_joint" /\ res.ok
    /\ \E k \in 1..Len(cmd.ccs) :
          /\ cmd.ccs[k].change_type = "AddLearnerNode"
          /\ cmd.ccs[k].node_id \in prev.conf.incoming
          /\ cmd.ccs[k].node_id \in conf.learners_next
          /\ cmd.ccs[k].node_id \notin conf.learners

\* C25: a Remove edit for an id that has a progress entry clears the id from
\* incoming, learners and learners_next and emits a progress Remove exactly
\* when the id is not an outgoing voter; when the id is an outgoing voter no
\* Remove is emitted and its progress entry is kept until leave_joint; a
\* Remove for an id without a progress entry changes nothing and emits nothing.
C25_RemoveEdit ==
    /\ ResultIsAfterEdits
    /\ ReachedEdits =>
          \A k \in 1..Len(cmd.ccs) :
              LET id == cmd.ccs[k].node_id
                  b == AfterEdits(k - 1)
                  a == AfterEdits(k)
              IN  (cmd.ccs[k].change_type = "RemoveNode" /\ id # 0) =>
                      IF HasProgress(b, id)
                      THEN /\ a.cfg = [b.cfg EXCEPT !.incoming = @ \ {id},
                                                    !.learners = @ \ {id},
                                                    !.learners_next = @ \ {id}]
                           /\ IF id \notin b.cfg.outgoing
                              THEN a.prs.changes
                                      = Append(b.prs.changes, <<id, "Remove">>)
                              ELSE /\ a.prs.changes = b.prs.changes
                                   /\ HasProgress(a, id)
                      ELSE a = b
    /\ (Done /\ cmd.op = "enter_joint" /\ res.ok) =>
          /\ prev.conf.incoming \subseteq progress
          /\ \A i \in 1..Len(res.changes) :
                res.changes[i][1] \in prev.conf.incoming
                    => res.changes[i][2] # "Remove"

\* enter_joint removed a voter from incoming; it is still an outgoing voter
\* and keeps its progress entry.
C25_Witness ==
    /\ Done /\ cmd.op = "enter_joint" /\ res.ok
    /\ \E k \in 1..Len(cmd.ccs) :
          /\ cmd.ccs[k].change_type = "RemoveNode"
          /\ cmd.ccs[k].node_id \in prev.conf.incoming
          /\ cmd.ccs[k].node_id \notin conf.incoming
          /\ cmd.ccs[k].node_id \in conf.outgoing
          /\ cmd.ccs[k].node_id \in progress

\* The change type of the last edit of the batch that names id, "none" if no
\* edit names it.
LastEdit(ccs, id) ==
    LET named == {i \in 1..Len(ccs) : ccs[i].node_id = id}
    IN  IF named = {} THEN "none" ELSE ccs[Largest(named)].change_type

\* C26: in a successful simple(batch), the final role of every non-zero id
\* named in the batch is determined solely by the last edit that names it,
\* independent of the id's prior role and of earlier edits to it in the
\* batch: AddVoter leaves it in incoming and not in learners; AddLearner
\* leaves it in learners and not in incoming; Remove leaves it in neither and
\* without a progress entry once the delta is applied.  Ids not named in the
\* batch keep their role.
C26_LastEditDecides ==
    (Done /\ cmd.op = "simple" /\ res.ok) =>
        \A id \in NodeIds :
            LET last == LastEdit(cmd.ccs, id)
            IN  /\ last = "AddNode" =>
                      /\ id \in conf.incoming /\ id \notin conf.learners
                      /\ id \in progress
                /\ last = "AddLearnerNode" =>
                      /\ id \in conf.learners /\ id \notin conf.incoming
                      /\ id \in progress
                /\ last = "RemoveNode" =>
                      /\ id \notin conf.incoming /\ id \notin conf.learners
                      /\ id \notin progress
                /\ last = "none" =>
                      /\ id \in conf.incoming <=> id \in prev.conf.incoming
                      /\ id \in conf.learners <=> id \in prev.conf.learners
                      /\ id \in progress <=> id \in prev.progress

\* A voter was removed by the last of two edits that name it, while the
\* other id kept its role.
C26_Witness ==
    /\ Done /\ cmd.op = "simple" /\ res.ok
    /\ Len(cmd.ccs) = 2
    /\ cmd.ccs[1].node_id = cmd.ccs[2].node_id
    /\ cmd.ccs[1].change_type = "AddLearnerNode"
    /\ cmd.ccs[2].change_type = "RemoveNode"
    /\ cmd.ccs[2].node_id \in prev.conf.incoming
    /\ cmd.ccs[2].node_id \notin progress

\* The edits of a batch whose node id is not 0.
WithoutIdZero(ccs) == SelectSeq(ccs, LAMBDA cc : cc.node_id # 0)

\* C27: edits whose node id is 0 are skipped: for every edit list, simple and
\* enter_joint return the same outcome (same configuration and progress
\* delta, or the same error) as for the list with all id-0 edits deleted, and
\* id 0 never appears in incoming, outgoing, learners, learners_next or the
\* delta.
C27_IdZeroSkipped ==
    /\ (Done /\ cmd.op = "simple") =>
          res = simple(prev.conf, prev.progress, WithoutIdZero(cmd.ccs))
    /\ (Done /\ cmd.op = "enter_joint") =>
          res = enter_joint(prev.conf, prev.progress, cmd.auto_leave,
                            WithoutIdZero(cmd.ccs))
    /\ 0 \notin conf.incoming \cup conf.outgoing \cup conf.learners
                  \cup conf.learners_next \cup progress
    /\ (Done /\ res.ok) => \A i \in 1..Len(res.changes) : res.changes[i][1] # 0

\* A batch of an id-0 edit and an edit that adds a node was accepted.
C27_Witness ==
    /\ Done /\ res.ok
    /\ cmd.op \in {"simple", "enter_joint"}
    /\ Len(cmd.ccs) = 2
    /\ cmd.ccs[1].node_id = 0
    /\ cmd.ccs[2].node_id # 0
    /\ res.changes # <<>>

\* C30: error precedence in simple: when a batch both changes more than one
\* voter and leaves incoming empty, the error returned is "removed all
\* voters", not "more than one voter changed without entering joint config";
\* the multi-voter error is only reported when incoming is non-empty after
\* the batch.
C30_RemovedAllVotersFirst ==
    (Done /\ cmd.op = "simple" /\ ~joint(prev.conf)) =>
        LET inc == IncomingAfter(prev.conf.incoming, cmd.ccs)
        IN  /\ (inc = {} /\ VoterChange(inc, prev.conf.incoming) > 1) =>
                  (~res.ok /\ res.err = "removed all voters")
            /\ res.err = "more than one voter changed without entering joint config"
                  => inc # {}

\* Both voters of a two-voter configuration were taken out by one batch.
C30_Witness ==
    /\ Done /\ cmd.op = "simple"
    /\ Cardinality(prev.conf.incoming) = 2
    /\ IncomingAfter(prev.conf.incoming, cmd.ccs) = {}
    /\ res.err = "removed all voters"

\* ------------------------------------------------- whole-tracker properties
\* The ids the configuration tracks in any role.
Tracked(cfg) == cfg.incoming \cup cfg.outgoing \cup cfg.learners \cup cfg.learners_next

\* The ids with a progress entry once the changes are applied in order to the
\* progress map prog.
ProgressAfter(prog, changes) ==
    {id \in prog \cup {changes[i][1] : i \in 1..Len(changes)} :
        HasProgress([prs |-> [changes |-> changes, base |-> prog]], id)}

\* C36: no orphaned progress: starting from the empty configuration and empty
\* progress map, after every successful Changer operation whose delta is
\* applied in order to the progress map, the set of ids with a progress entry
\* equals exactly incoming union outgoing union learners union learners_next.
C36_NoOrphanedProgress ==
    /\ progress = Tracked(conf)
    /\ (Done /\ res.ok) => ProgressAfter(prev.progress, res.changes) = Tracked(res.cfg)

\* simple took an id out of the configuration and its progress entry went
\* with it, while another id stayed.
C36_Witness ==
    /\ Done /\ cmd.op = "simple" /\ res.ok
    /\ \E id \in prev.progress : id \notin progress
    /\ progress # {}

\* C37: a joint configuration can always be exited: in every joint
\* configuration reachable from the empty configuration through successful
\* Changer operations, leave_joint succeeds; in particular no reachable
\* configuration has an id that is both in learners_next and in incoming, a
\* condition check_invariants itself does not test.
C37_JointCanBeLeft ==
    /\ (Done /\ cmd.op = "leave_joint" /\ joint(prev.conf)) => (res.ok /\ ~joint(conf))
    /\ conf.learners_next \cap conf.incoming = {}

\* enter_joint demoted a voter and promoted it again in one batch; the
\* configuration installed is joint and has nothing staged.
C37_Witness ==
    /\ Done /\ cmd.op = "enter_joint" /\ res.ok
    /\ Len(cmd.ccs) = 2
    /\ cmd.ccs[1].change_type = "AddLearnerNode"
    /\ cmd.ccs[2].change_type = "AddNode"
    /\ cmd.ccs[1].node_id = cmd.ccs[2].node_id
    /\ cmd.ccs[1].node_id \in prev.conf.incoming
    /\ joint(conf)
    /\ conf.learners_next = {}

\* C38: simple is idempotent on the configuration: if simple(batch) succeeds
\* on a reachable non-joint configuration C and yields C', then after
\* installing C' and its delta, simple(batch) succeeds again and yields C'
\* again, and the set of ids with progress is the same after the second
\* application as after the first.
C38_SimpleIdempotent ==
    (Done /\ cmd.op = "simple" /\ res.ok) =>
        LET again == simple(conf, progress, cmd.ccs)
        IN  /\ again.ok
            /\ again.cfg = res.cfg
            /\ ProgressAfter(progress, again.changes) = progress

\* A batch of two edits changed the configuration.
C38_Witness ==
    /\ Done /\ cmd.op = "simple" /\ res.ok
    /\ Len(cmd.ccs) = 2
    /\ cmd.ccs[1].node_id # 0 /\ cmd.ccs[2].node_id # 0
    /\ conf # prev.conf
    /\ prev.conf.incoming # {}

\* C39: going through a joint configuration is equivalent to the direct
\* change whenever the direct change is allowed: for every reachable
\* non-joint configuration C with non-empty incoming and every batch for
\* which simple(batch) succeeds on C, enter_joint(auto_leave, batch) followed
\* by leave_joint also succeeds and ends in the same configuration and the
\* same set of ids with progress as simple(batch); in particular enter_joint
\* with an empty batch followed by leave_joint returns C with an empty delta.
C39_JointDetourEquivalent ==
    (Done /\ cmd.op = "simple" /\ res.ok /\ prev.conf.incoming # {}) =>
        \A auto_leave \in BOOLEAN :
            LET entered == enter_joint(prev.conf, prev.progress, auto_leave, cmd.ccs)
            IN  /\ entered.ok
                /\ LET between == ProgressAfter(prev.progress, entered.changes)
                   IN  \A order \in IterOrders(entered.cfg.outgoing) :
                          LET left == leave_joint(entered.cfg, between, order)
                          IN  /\ left.ok
                              /\ left.cfg = res.cfg
                              /\ ProgressAfter(between, left.changes) = progress
                              /\ cmd.ccs = <<>> =>
                                    /\ left.cfg = prev.conf
                                    /\ entered.changes = <<>>
                                    /\ left.changes = <<>>

\* simple removed one of two voters: the detour has to drop its progress in
\* leave_joint.
C39_Witness ==
    /\ Done /\ cmd.op = "simple" /\ res.ok
    /\ Cardinality(prev.conf.incoming) = 2
    /\ Cardinality(conf.incoming) = 1
    /\ \E id \in prev.progress : id \notin progress

\* --------------------------------------------- quorum queries as inputs move
\* The voters in ascending order of id, as one of the orders the set may be
\* iterated in.
RECURSIVE IdOrder(_)
IdOrder(voters) ==
    IF voters = {} THEN <<>>
    ELSE <<Smallest(voters)>> \o IdOrder(voters \ {Smallest(voters)})

\* C32: quorum queries are deterministic functions of their inputs: for a
\* fixed voter set, acknowledged-index assignment (positions and group ids)
\* and use_group_commit value, MajorityConfig::committed_index returns the
\* same (position, flag) for every iteration order of the voter set and every
\* tie-breaking order among entries with equal positions in the descending
\* sort, including when tied entries carry different group ids; the query
\* changes neither the configuration nor the acknowledged indices.
C32_CommittedIndexDeterministic ==
    /\ [](Answered("majority_commit") =>
             answer = majority_committed_index(query.voters, query.use_group_commit,
                                               query.l, IdOrder(query.voters)))
    /\ [][/\ query'.voters = query.voters
          /\ query'.l = query.l
          /\ query'.use_group_commit = query.use_group_commit]_vars

\* Two voters of different groups are tied at a position above a third, under
\* group commit: the tie can be broken either way and the voters iterated in
\* six orders.
C32_Witness ==
    /\ Answered("majority_commit") /\ query.use_group_commit
    /\ Cardinality(query.voters) = 3
    /\ \E v, w \in query.voters :
          /\ v # w
          /\ Position(query.l, v) = Position(query.l, w)
          /\ Group(query.l, v) # 0 /\ Group(query.l, w) # 0
          /\ Group(query.l, v) # Group(query.l, w)
          /\ \E u \in query.voters : Position(query.l, u) < Position(query.l, v)

\* C33: group commit never yields a higher position than plain commit: for
\* every non-empty voter set and every acknowledged-index assignment, the
\* position returned by MajorityConfig::committed_index with
\* use_group_commit = true is <= the position returned with
\* use_group_commit = false; the same holds for JointConfig::committed_index.
C33_GroupCommitNeverHigher ==
    /\ (Answered("majority_commit") /\ query.use_group_commit /\ query.voters # {}) =>
          answer[1] <= majority_committed_index(query.voters, FALSE, query.l,
                                                IdOrder(query.voters))[1]
    /\ (Answered("joint_commit") /\ query.use_group_commit
                                 /\ query.incoming \cup query.outgoing # {}) =>
          answer[1] <= joint_committed_index(query.incoming, query.outgoing,
                                             FALSE, query.l,
                                             IdOrder(query.incoming),
                                             IdOrder(query.outgoing))[1]

\* Group commit held the position of a joint configuration below the plain
\* commit index.
C33_Witness ==
    /\ Answered("joint_commit") /\ query.use_group_commit
    /\ query.incoming # {}
    /\ answer[1] < joint_committed_index(query.incoming, query.outgoing,
                                         FALSE, query.l,
                                         IdOrder(query.incoming),
                                         IdOrder(query.outgoing))[1]

\* The map l with the acknowledged position of voter v raised to p; the group
\* id stays, the one of a missing entry being the default 0.
Raised(l, v, p) ==
    [w \in DOMAIN l \cup {v} |->
        IF w = v THEN [index |-> p, group_id |-> Group(l, v)] ELSE l[w]]

\* C34: the committed index never regresses while acknowledgements only
\* advance: for a fixed voter set and fixed group ids, raising the
\* acknowledged position of any voter never lowers the position returned by
\* MajorityConfig::committed_index or JointConfig::committed_index, for both
\* values of use_group_commit.
C34_CommitNeverRegresses ==
    /\ Answered("majority_commit") =>
          \A v \in query.voters :
             \A p \in (Position(query.l, v) + 1)..MaxIndex :
                answer[1] <= majority_committed_index(
                                 query.voters, query.use_group_commit,
                                 Raised(query.l, v, p), IdOrder(query.voters))[1]
    /\ Answered("joint_commit") =>
          \A v \in query.incoming \cup query.outgoing :
             \A p \in (Position(query.l, v) + 1)..MaxIndex :
                answer[1] <= joint_committed_index(
                                 query.incoming, query.outgoing,
                                 query.use_group_commit, Raised(query.l, v, p),
                                 IdOrder(query.incoming), IdOrder(query.outgoing))[1]

\* A group-commit answer below the plain commit index that one voter's
\* advance lifts.
C34_Witness ==
    /\ Answered("majority_commit") /\ query.use_group_commit
    /\ Cardinality(NonzeroGroups(query.voters, query.l)) > 1
    /\ \E v \in query.voters :
          \E p \in (Position(query.l, v) + 1)..MaxIndex :
             answer[1] < majority_committed_index(
                             query.voters, TRUE, Raised(query.l, v, p),
                             IdOrder(query.voters))[1]

\* The vote maps that record every vote of check and in which voters that had
\* not voted may have cast a yes or a no.
LaterVotes(check) ==
    {later \in [DOMAIN check -> Votes] :
        \A v \in DOMAIN check : check[v] # "none" => later[v] = check[v]}

\* C35: vote outcomes are final: if MajorityConfig::vote_result or
\* JointConfig::vote_result is Won (respectively Lost) for some vote
\* assignment, it stays Won (respectively Lost) after any number of
\* not-yet-voted voters cast a yes or a no vote, as long as no recorded vote
\* changes; only Pending can change to another outcome.
C35_VoteOutcomeFinal ==
    /\ (Answered("majority_vote") /\ answer # "Pending") =>
          \A later \in LaterVotes(query.check) :
             majority_vote_result(query.voters, later) = answer
    /\ (Answered("joint_vote") /\ answer # "Pending") =>
          \A later \in LaterVotes(query.check) :
             joint_vote_result(query.incoming, query.outgoing, later) = answer

\* A joint vote is Lost with voters still to vote, and a Pending one can
\* still go either way.
C35_Witness ==
    /\ Answered("joint_vote")
    /\ query.incoming # {} /\ query.outgoing # {}
    /\ \/ /\ answer = "Lost"
          /\ \E v \in query.incoming \cup query.outgoing : query.check[v] = "none"
       \/ /\ answer = "Pending"
          /\ \E won, lost \in LaterVotes(query.check) :
                /\ joint_vote_result(query.incoming, query.outgoing, won) = "Won"
                /\ joint_vote_result(query.incoming, query.outgoing, lost) = "Lost"

\* ------------------------------------------------- unserialized callers
\* C31: serialization of Changer calls is necessary and not enforced by the
\* core: two simple() calls computed against the same base configuration each
\* succeed, and installing both results one after the other yields two
\* consecutive configurations that can have disjoint majorities (e.g. base
\* voters {1,2}, results {1,2,3} then {1,2,4}); only when each call is
\* computed against the configuration installed by the previous call is
\* quorum overlap between consecutive configurations guaranteed.
\* As a formula: the first result installed in a round was computed against
\* the configuration it replaces, and every quorum of that configuration
\* meets every quorum of the new one; the witness is the second install of a
\* round, after which the two consecutive configurations have disjoint
\* quorums.
C31_SerializedCallsOverlap ==
    (calls.installed = 1 /\ prev.conf.incoming # {}) =>
        \A S, T \in SUBSET NodeIds :
            (IsQuorum(prev.conf, S) /\ IsQuorum(conf, T)) => S \cap T # {}

\* Two results computed against the same base were installed one after the
\* other, and the configuration of the first has a quorum disjoint from a
\* quorum of the configuration of the second.
C31_Witness ==
    /\ calls.installed = 2
    /\ prev.conf.incoming # {}
    /\ conf.incoming # {}
    /\ \E S, T \in SUBSET NodeIds :
          /\ IsQuorum(prev.conf, S)
          /\ IsQuorum(conf, T)
          /\ S \cap T = {}

====
